---------------------------- MODULE Spec2Model ----------------------------
(***************************************************************************)
(* aiotg: the long-polling update loop (LongPollingRunner) together with    *)
(* the part of the Telegram wrapper it drives (get_updates, make_request,   *)
(* the decoding of an Update).                                              *)
(*                                                                          *)
(* run() is a coroutine: it is modelled by its position pc and one action   *)
(* per stretch of code between two awaits.  The transport (the HTTP reply   *)
(* of getUpdates), the bot's handlers and the caller of stop() are the      *)
(* environment; their results are chosen with \E.                           *)
(***************************************************************************)
EXTENDS Integers, Sequences, FiniteSets, TLC

(***************************************************************************)
(* Bounds of the model.                                                     *)
(***************************************************************************)
\* largest update_id the transport hands out
MaxId == 2
\* number of get_updates calls after which the model stops issuing new ones
MaxFetch == 3
\* the runner's limit argument: the longest batch the transport returns
limit == 2
\* number of run() calls made on one runner
MaxRuns == 2
\* largest id of the first update of the scripted transport
MaxFirstId == 10

Ids == 0..MaxId

(***************************************************************************)
(* Python values.  An optional value is None or the value itself; here      *)
(* None is the empty tuple and a present value v is <<v>>, so that both can *)
(* be compared.  A JSON object is a function from its keys to its values:   *)
(* a key is present exactly when it is in the DOMAIN.                       *)
(***************************************************************************)
None == << >>
Some(v) == << v >>

\* the result of a call: it returns a value or raises an exception
Return(v) == [tag |-> "return", value |-> v]
Raise(e) == [tag |-> "raise", exc |-> e]

\* exception classes that derive from Exception (what `except Exception`
\* catches); "BaseException" stands for the others (KeyboardInterrupt,
\* SystemExit, GeneratorExit, a cancellation)
ExceptionClasses == {"KeyError", "ValueError", "TelegramException", "ClientError", "Exception"}
IsException(e) == e \in ExceptionClasses

(***************************************************************************)
(* Decoding: the classes built from the JSON objects of a reply.  Each      *)
(* __init__ is a list of assignments; Layout gives them in the order of the *)
(* source, one entry << attribute, key, how, class >> per assignment:       *)
(*   "item"      obj[key]                                                   *)
(*   "init"      class(obj[key])                                            *)
(*   "get"       obj.get(key)                                               *)
(*   "flag"      obj.get(key, False)                                        *)
(*   "optional"  get_optional(obj, key, class)                              *)
(*   "array"     get_optional_array(obj, key, class)                        *)
(* An attribute that may be None holds None or Some(value).                 *)
(***************************************************************************)
ChatType == {"private", "group", "supergroup", "channel"}

MessageEntityType ==
    {"mention", "hashtag", "bot_command", "url", "email", "bold", "italic",
     "code", "pre", "text_link", "text_mention"}

Layout(cls) ==
    CASE cls = "WebhookInfo" ->
           << << "url", "url", "item", "" >>,
              << "has_custom_certificate", "has_custom_certificate", "item", "" >>,
              << "pending_update_count", "pending_update_count", "item", "" >>,
              << "last_error_date", "last_error_date", "optional", "fromtimestamp" >>,
              << "last_error_message", "last_error_message", "get", "" >>,
              << "max_connections", "max_connections", "get", "" >>,
              << "allowed_updates", "allowed_updates", "get", "" >> >>
      [] cls = "User" ->
           << << "id", "id", "item", "" >>,
              << "first_name", "first_name", "item", "" >>,
              << "last_name", "last_name", "get", "" >>,
              << "username", "username", "get", "" >> >>
      [] cls = "Chat" ->
           << << "id", "id", "item", "" >>,
              << "type", "type", "init", "ChatType" >>,
              << "title", "title", "get", "" >>,
              << "username", "username", "get", "" >>,
              << "first_name", "first_name", "get", "" >>,
              << "last_name", "last_name", "get", "" >> >>
      [] cls = "MessageEntity" ->
           << << "type", "type", "init", "MessageEntityType" >>,
              << "offset", "offset", "item", "" >>,
              << "length", "length", "item", "" >>,
              << "url", "url", "get", "" >>,
              << "user", "user", "optional", "User" >> >>
      [] cls = "Audio" ->
           << << "file_id", "file_id", "item", "" >>,
              << "duration", "duration", "init", "timedelta" >>,
              << "performer", "performer", "get", "" >>,
              << "title", "title", "get", "" >>,
              << "mime_type", "mime_type", "get", "" >>,
              << "file_size", "file_size", "get", "" >> >>
      [] cls = "PhotoSize" ->
           << << "file_id", "file_id", "item", "" >>,
              << "width", "width", "item", "" >>,
              << "height", "height", "item", "" >>,
              << "file_size", "file_size", "get", "" >> >>
      [] cls = "Document" ->
           << << "file_id", "file_id", "item", "" >>,
              << "thumbnail", "thumb", "optional", "PhotoSize" >>,
              << "file_name", "file_name", "get", "" >>,
              << "mime_type", "mime_type", "get", "" >>,
              << "file_size", "file_size", "get", "" >> >>
      [] cls = "Sticker" ->
           << << "file_id", "file_id", "item", "" >>,
              << "width", "width", "item", "" >>,
              << "height", "height", "item", "" >>,
              << "thumbnail", "thumb", "optional", "PhotoSize" >>,
              << "emoji", "emoji", "get", "" >>,
              << "file_size", "file_size", "get", "" >> >>
      [] cls = "Video" ->
           << << "file_id", "file_id", "item", "" >>,
              << "width", "width", "item", "" >>,
              << "height", "height", "item", "" >>,
              << "duration", "duration", "init", "timedelta" >>,
              << "thumbnail", "thumb", "optional", "PhotoSize" >>,
              << "mime_type", "mime_type", "get", "" >>,
              << "file_size", "file_size", "get", "" >> >>
      [] cls = "Voice" ->
           << << "file_id", "file_id", "item", "" >>,
              << "duration", "duration", "init", "timedelta" >>,
              << "mime_type", "mime_type", "get", "" >>,
              << "file_size", "file_size", "get", "" >> >>
      [] cls = "Contact" ->
           << << "phone_number", "phone_number", "item", "" >>,
              << "first_name", "first_name", "item", "" >>,
              << "last_name", "last_name", "get", "" >>,
              << "user_id", "user_id", "get", "" >> >>
      [] cls = "Location" ->
           << << "longitude", "longitude", "item", "" >>,
              << "latitude", "latitude", "item", "" >> >>
      [] cls = "Venue" ->
           << << "location", "location", "init", "Location" >>,
              << "title", "title", "item", "" >>,
              << "address", "address", "item", "" >>,
              << "foursquare_id", "foursquare_id", "get", "" >> >>
      [] cls = "InlineQuery" ->
           << << "id", "id", "item", "" >>,
              << "from_", "from", "init", "User" >>,
              << "location", "location", "optional", "Location" >>,
              << "query", "query", "item", "" >>,
              << "offset", "offset", "item", "" >> >>
      [] cls = "ChosenInlineResult" ->
           << << "result_id", "result_id", "item", "" >>,
              << "from_", "from", "init", "User" >>,
              << "location", "location", "optional", "Location" >>,
              << "inline_message_id", "inline_message_id", "get", "" >>,
              << "query", "query", "item", "" >> >>
      [] cls = "CallbackQuery" ->
           << << "id", "id", "item", "" >>,
              << "from_", "from", "init", "User" >>,
              << "message", "message", "optional", "Message" >>,
              << "inline_message_id", "inline_message_id", "get", "" >>,
              << "data", "data", "item", "" >> >>
      [] cls = "Message" ->
           << << "id", "message_id", "item", "" >>,
              << "from_", "from", "optional", "User" >>,
              << "date", "date", "init", "fromtimestamp" >>,
              << "chat", "chat", "init", "Chat" >>,
              << "forward_from", "forward_from", "optional", "User" >>,
              << "forward_from_chat", "forward_from_chat", "optional", "Chat" >>,
              << "forward_date", "forward_date", "optional", "fromtimestamp" >>,
              << "reply_to_message", "reply_to_message", "optional", "Message" >>,
              << "edit_date", "edit_date", "optional", "fromtimestamp" >>,
              << "text", "text", "get", "" >>,
              << "entities", "entities", "array", "MessageEntity" >>,
              << "audio", "audio", "optional", "Audio" >>,
              << "document", "document", "optional", "Document" >>,
              << "photo", "photo", "array", "PhotoSize" >>,
              << "sticker", "sticker", "optional", "Sticker" >>,
              << "video", "video", "optional", "Video" >>,
              << "voice", "voice", "optional", "Voice" >>,
              << "caption", "caption", "get", "" >>,
              << "contact", "contact", "optional", "Contact" >>,
              << "location", "location", "optional", "Location" >>,
              << "venue", "venue", "optional", "Venue" >>,
              << "new_chat_member", "new_chat_member", "optional", "User" >>,
              << "left_chat_member", "left_chat_member", "optional", "User" >>,
              << "new_chat_title", "new_chat_title", "get", "" >>,
              << "new_chat_photo", "new_chat_photo", "array", "PhotoSize" >>,
              << "delete_chat_photo", "delete_chat_photo", "flag", "" >>,
              << "group_chat_created", "group_chat_created", "flag", "" >>,
              << "supergroup_chat_created", "supergroup_chat_created", "flag", "" >>,
              << "channel_chat_created", "channel_chat_created", "flag", "" >>,
              << "migrate_to_chat_id", "migrate_to_chat_id", "get", "" >>,
              << "migrate_from_chat_id", "migrate_from_chat_id", "get", "" >>,
              << "pinned_message", "pinned_message", "optional", "Message" >> >>
      [] cls = "Update" ->
           << << "id", "update_id", "item", "" >>,
              << "message", "message", "optional", "Message" >>,
              << "edited_message", "edited_message", "optional", "Message" >>,
              << "channel_post", "channel_post", "optional", "Message" >>,
              << "edited_channel_post", "edited_channel_post", "optional", "Message" >>,
              << "inline_query", "inline_query", "optional", "InlineQuery" >>,
              << "chosen_inline_result", "chosen_inline_result", "optional", "ChosenInlineResult" >>,
              << "callback_query", "callback_query", "optional", "CallbackQuery" >> >>

\* obj.get(key): the value, or None when the key is absent
dict_get(obj, key) ==
    IF key \in DOMAIN obj THEN Some(obj[key]) ELSE None

\* obj.get(key, default): the value, or the default when the key is absent
dict_get_default(obj, key, default) ==
    IF key \in DOMAIN obj THEN Some(obj[key]) ELSE Some(default)

RECURSIVE init(_, _)
RECURSIVE InitAll(_, _)
RECURSIVE DecodeFields(_, _, _, _)

\* faulty variant: an absent key yields an empty value instead of None
get_optional_NeverNone(obj, key, cls) ==
    IF key \in DOMAIN obj
    THEN LET r == init(cls, obj[key]) IN
         IF r.tag = "raise" THEN r ELSE Return(Some(r.value))
    ELSE Return(Some(<< >>))

\* get_optional(obj, key, init): init(obj[key]) if key in obj else None
get_optional(obj, key, cls) ==
    IF key \in DOMAIN obj
    THEN LET r == init(cls, obj[key]) IN
         IF r.tag = "raise" THEN r ELSE Return(Some(r.value))
    ELSE Return(None)

\* [init(item) for item in items]: the first item that fails to decode raises
InitAll(cls, items) ==
    IF items = << >> THEN Return(<< >>)
    ELSE LET r == init(cls, Head(items)) IN
         IF r.tag = "raise" THEN r
         ELSE LET rest == InitAll(cls, Tail(items)) IN
              IF rest.tag = "raise" THEN rest
              ELSE Return(<< r.value >> \o rest.value)

\* get_optional_array(obj, key, init)
get_optional_array(obj, key, cls) ==
    IF key \in DOMAIN obj
    THEN LET r == InitAll(cls, obj[key]) IN
         IF r.tag = "raise" THEN r ELSE Return(Some(r.value))
    ELSE Return(None)

\* the right-hand side of one assignment of an __init__
DecodeField(entry, obj) ==
    LET key == entry[2]
        how == entry[3]
        cls == entry[4] IN
    CASE how = "item" ->
           IF key \in DOMAIN obj THEN Return(obj[key]) ELSE Raise("KeyError")
      [] how = "init" ->
           IF key \in DOMAIN obj THEN init(cls, obj[key]) ELSE Raise("KeyError")
      [] how = "get" -> Return(dict_get(obj, key))
      [] how = "flag" -> Return(dict_get_default(obj, key, FALSE))
      [] how = "optional" -> get_optional(obj, key, cls)
      [] how = "array" -> get_optional_array(obj, key, cls)

\* the assignments of an __init__ from the i-th on: the first one that
\* raises ends the construction, otherwise the object with its attributes
DecodeFields(layout, obj, i, attrs) ==
    IF i > Len(layout) THEN Return(attrs)
    ELSE LET r == DecodeField(layout[i], obj) IN
         IF r.tag = "raise" THEN r
         ELSE DecodeFields(layout, obj, i + 1, (layout[i][1] :> r.value) @@ attrs)

\* the call init(value) of a class, an enumeration or a conversion
init(cls, value) ==
    CASE cls = "ChatType" ->
           IF value \in ChatType THEN Return(value) ELSE Raise("ValueError")
      [] cls = "MessageEntityType" ->
           IF value \in MessageEntityType THEN Return(value) ELSE Raise("ValueError")
      [] cls = "fromtimestamp" -> Return([timestamp |-> value])
      [] cls = "timedelta" -> Return([seconds |-> value])
      [] OTHER -> DecodeFields(Layout(cls), value, 1, << >>)

\* Chat.__init__
Chat(chat) == init("Chat", chat)

\* Message.__init__
Message(message) == init("Message", message)

\* Update.__init__
Update(update) == init("Update", update)

(***************************************************************************)
(* The transport.                                                           *)
(***************************************************************************)
GoodMessage == [message_id |-> 1, date |-> 0, chat |-> [id |-> 1, type |-> "private"]]
\* an enumerated field holding an unrecognized value
BadEnumMessage == [message_id |-> 1, date |-> 0, chat |-> [id |-> 1, type |-> "secret"]]
\* a required field missing
NoChatMessage == [message_id |-> 1, date |-> 0]

\* the JSON objects the transport may put in the result of getUpdates:
\* a well-formed update for every id, and three malformed ones (an
\* unrecognized enumerated value, a required field of the message missing,
\* update_id missing)
RawUpdates ==
    {[update_id |-> i, message |-> GoodMessage] : i \in Ids}
    \cup {[update_id |-> MaxId, message |-> BadEnumMessage],
          [update_id |-> MaxId, message |-> NoChatMessage],
          [message |-> GoodMessage]}

RECURSIVE SeqsUpTo(_, _)
SeqsUpTo(S, n) ==
    IF n = 0 THEN {<< >>}
    ELSE LET shorter == SeqsUpTo(S, n - 1) IN
         shorter \cup {Append(s, x) : s \in {t \in shorter : Len(t) = n - 1}, x \in S}

\* what one HTTP exchange of make_request can end with: the post or the
\* reading of the body raises, or a JSON envelope arrives
Responses ==
    {[kind |-> "raise", exc |-> e] : e \in {"ClientError", "BaseException"}}
    \cup {[kind |-> "json", payload |-> [ok |-> FALSE, description |-> "boom"]]}
    \cup {[kind |-> "json", payload |-> [ok |-> TRUE, result |-> r]] :
              r \in SeqsUpTo(RawUpdates, limit)}

\* Telegram.make_request: payload["result"] if payload["ok"], else
\* TelegramException(payload["description"])
\* TelegramException(message)
TelegramException(message) ==
    [tag |-> "raise", exc |-> "TelegramException", message |-> message]

\* a JSON value written with its kind; the values Python takes for false
\* are false, 0, "", [] and null (the list of updates of the runner is a
\* plain sequence)
JsonValue(kind, val) == [kind |-> kind, val |-> val]
Falsy(x) ==
    \/ x = << >>
    \/ x \in {JsonValue("bool", FALSE), JsonValue("number", 0),
              JsonValue("string", ""), JsonValue("array", << >>),
              JsonValue("null", "null")}

\* faulty variant: `if payload["ok"] and payload["result"]`
make_request_FalsyResult(response) ==
    IF response.kind = "raise" THEN Raise(response.exc)
    ELSE IF response.payload.ok /\ ~Falsy(response.payload.result)
    THEN Return(response.payload.result)
    ELSE TelegramException(IF "description" \in DOMAIN response.payload
                           THEN response.payload.description ELSE "")

make_request(response) ==
    IF response.kind = "raise" THEN Raise(response.exc)
    ELSE IF response.payload.ok THEN Return(response.payload.result)
    ELSE TelegramException(response.payload.description)

\* faulty variant: an element that fails to decode is left out of the list
RECURSIVE DecodeAll_SkipBad(_)
DecodeAll_SkipBad(raws) ==
    IF raws = << >> THEN Return(<< >>)
    ELSE LET u == Update(Head(raws))
             rest == DecodeAll_SkipBad(Tail(raws)) IN
         IF u.tag = "raise" THEN rest
         ELSE Return(<< u.value >> \o rest.value)

\* the list comprehension of get_updates: the first element that fails to
\* decode raises, otherwise the list of the decoded updates
RECURSIVE DecodeAll(_)
DecodeAll(raws) ==
    IF raws = << >> THEN Return(<< >>)
    ELSE LET u == Update(Head(raws)) IN
         IF u.tag = "raise" THEN u
         ELSE LET rest == DecodeAll(Tail(raws)) IN
              IF rest.tag = "raise" THEN rest
              ELSE Return(<< u.value >> \o rest.value)

\* Telegram.get_updates
get_updates(response) ==
    LET r == make_request(response) IN
    IF r.tag = "raise" THEN r ELSE DecodeAll(r.value)

\* the number of leading elements of a reply's result that decode, when a
\* later element does not; -1 when the reply carries no result or every
\* element decodes
RECURSIVE GoodPrefix(_)
GoodPrefix(raws) ==
    IF raws = << >> \/ Update(Head(raws)).tag = "raise" THEN 0
    ELSE 1 + GoodPrefix(Tail(raws))

DecodedBeforeBad(response) ==
    IF response.kind = "json" /\ response.payload.ok
       /\ GoodPrefix(response.payload.result) < Len(response.payload.result)
    THEN GoodPrefix(response.payload.result)
    ELSE -1

\* every way one get_updates call can end: the outcome of the call, and
\* what the reply was like
FetchCases ==
    {[outcome |-> get_updates(response), beforeBad |-> DecodedBeforeBad(response)] :
         response \in Responses}

(***************************************************************************)
(* State.                                                                   *)
(***************************************************************************)
VARIABLES
    pc,           \* position of run(): "idle" (not called yet), "on_start",
                  \* "while", "get_updates", "for", "on_update", "returned",
                  \* "raised"
    offset,       \* LongPollingRunner.offset
    is_stopped,   \* LongPollingRunner.is_stopped
    updates,      \* loop(): the list returned by get_updates
    idx,          \* loop(): position of the for statement in updates
    requested,    \* the offset argument of the latest get_updates call
    exc,          \* the exception run() ended with, "none" if none
    \* history, for stating the properties
    fetches,      \* number of get_updates calls issued
    lastFetch,    \* how the latest call ended: "none", "ok", "failed" (an
                  \* Exception) or "interrupted" (another BaseException)
    beforeBad,    \* the latest reply held an element that does not decode,
                  \* after this many that do; -1 otherwise
    received,     \* ids of all updates returned by get_updates, in order
    delivered,    \* ids of all updates on_update was invoked with, in order
    processed,    \* ids of all updates whose on_update call has completed,
                  \* by returning or by raising an Exception, in order
    lastOutcome,  \* how the latest on_update call ended: "none", "return",
                  \* "raise" (an Exception) or "interrupted" (another
                  \* BaseException)
    startReturned, \* bot.on_start has returned
    contractKept, \* every batch returned so far was ascending by id and
                  \* held only ids >= the offset requested
    stopMark,     \* number of fetches issued when stop() was first called
                  \* outside a cycle, -1 if it never was
    midStop,      \* number of fetches issued when stop() was first called
                  \* inside a cycle, -1 if it never was
    starts,       \* number of invocations of bot.on_start
    startRaised,  \* the exception bot.on_start raised, "none" if none
    inFlight,     \* number of get_updates calls issued and not completed
    handling,     \* number of on_update calls invoked and not completed
    emptyBatch,   \* the latest get_updates call returned an empty list
    \* a call of the Telegram wrapper or of a decoder, outside the runner
    op,           \* the function called, "none" before the first call
    input,        \* its argument
    output,       \* its result
    \* main() of the command line
    main,         \* the statement main() is at, "parse_args" at first
    class_,       \* how the CLASS argument resolves, "none" before it is read
    session,      \* the aiohttp session of Telegram: "none", "open" or "closed"
    task          \* the task of async_main: "none", "pending", "done" or "raised"

vars == << pc, offset, is_stopped, updates, idx, requested, exc, fetches,
           lastFetch, beforeBad, received, delivered, processed, lastOutcome,
           startReturned, contractKept, stopMark, midStop, starts, startRaised,
           inFlight, handling, emptyBatch, op, input, output,
           main, class_, session, task >>

\* the variables of the calls outside the runner
callVars == << op, input, output >>

\* the variables of main()
mainVars == << main, class_, session, task >>

\* the variables of the runner
runnerVars == << pc, offset, is_stopped, updates, idx, requested, exc, fetches,
                 lastFetch, beforeBad, received, delivered, processed,
                 lastOutcome, startReturned, contractKept, stopMark, midStop,
                 starts, startRaised, inFlight, handling, emptyBatch >>

ids(us) == [i \in 1..Len(us) |-> us[i].id]

Ascending(s) == \A i \in 1..(Len(s) - 1) : s[i] < s[i + 1]

\* the contract of getUpdates for one batch
KeepsContract(us, off) ==
    /\ Ascending(ids(us))
    /\ \A i \in 1..Len(us) : us[i].id >= off

\* LongPollingRunner.__init__
Init ==
    /\ pc = "idle"
    /\ offset = 0
    /\ is_stopped = FALSE
    /\ updates = << >>
    /\ idx = 1
    /\ requested = 0
    /\ exc = "none"
    /\ fetches = 0
    /\ lastFetch = "none"
    /\ beforeBad = -1
    /\ received = << >>
    /\ delivered = << >>
    /\ processed = << >>
    /\ lastOutcome = "none"
    /\ startReturned = FALSE
    /\ contractKept = TRUE
    /\ stopMark = -1
    /\ midStop = -1
    /\ starts = 0
    /\ startRaised = "none"
    /\ inFlight = 0
    /\ handling = 0
    /\ emptyBatch = FALSE
    /\ op = "none"
    /\ input = None
    /\ output = None
    /\ main = "parse_args"
    /\ class_ = "none"
    /\ session = "none"
    /\ task = "none"

(***************************************************************************)
(* run(), loop() and stop().                                                *)
(***************************************************************************)
\* what an awaited handler (on_start, on_update) can end with
HandlerOutcomes == {Return(None)} \cup {Raise(e) : e \in {"Exception", "BaseException"}}

\* how a call ended, for the history variables
FetchKind(r) ==
    IF r.tag = "return" THEN "ok"
    ELSE IF IsException(r.exc) THEN "failed" ELSE "interrupted"

OutcomeKind(r) ==
    IF r.tag = "return" THEN "return"
    ELSE IF IsException(r.exc) THEN "raise" ELSE "interrupted"

\* faulty variant: the clause is a bare `except:`, which catches every
\* BaseException
Caught_Everything(e) == TRUE

\* faulty variant: no try statement, nothing is caught
Caught_Nothing(e) == FALSE

\* faulty variant: the clause names TelegramException only
Caught_TelegramOnly(e) == e = "TelegramException"

\* `except Exception` of loop(): whether the clause catches e
Caught(e) == IsException(e)

\* faulty variant: self.offset = update.id
NextOffset_Same(update) == update.id

\* faulty variant: self.offset = update.id - 1
NextOffset_Before(update) == update.id - 1

\* loop(): self.offset = update.id + 1
NextOffset(update) == update.id + 1

\* faulty variant: run() does not call bot.on_start
Run_SkipStart ==
    /\ pc = "idle"
    /\ pc' = "while"
    /\ starts' = starts
    /\ UNCHANGED << offset, is_stopped, updates, idx, requested, exc, fetches,
                    lastFetch, beforeBad, received, delivered, processed,
                    lastOutcome, startReturned, contractKept, stopMark >>
    /\ UNCHANGED << midStop, startRaised, inFlight, handling, emptyBatch >>
    /\ UNCHANGED << callVars, mainVars >>

\* the caller invokes run(): it runs up to the await of bot.on_start
Run ==
    /\ pc = "idle"
    /\ pc' = "on_start"
    /\ starts' = starts + 1
    /\ UNCHANGED << offset, is_stopped, updates, idx, requested, exc, fetches,
                    lastFetch, beforeBad, received, delivered, processed,
                    lastOutcome, startReturned, contractKept, stopMark >>
    /\ UNCHANGED << midStop, startRaised, inFlight, handling, emptyBatch >>
    /\ UNCHANGED << callVars, mainVars >>

\* faulty variant: an Exception of bot.on_start is logged and run() goes on
OnStart_LogsException ==
    /\ pc = "on_start"
    /\ \E outcome \in HandlerOutcomes :
          IF outcome.tag = "return"
          THEN /\ pc' = "while" /\ exc' = exc /\ startReturned' = TRUE
               /\ startRaised' = "none"
          ELSE IF Caught(outcome.exc)
          THEN /\ pc' = "while" /\ exc' = exc /\ startReturned' = FALSE
               /\ startRaised' = outcome.exc
          ELSE /\ pc' = "raised" /\ exc' = outcome.exc /\ startReturned' = FALSE
               /\ startRaised' = outcome.exc
    /\ UNCHANGED << offset, is_stopped, updates, idx, requested, fetches,
                    lastFetch, beforeBad, received, delivered, processed,
                    lastOutcome, contractKept, stopMark >>
    /\ UNCHANGED << midStop, starts, inFlight, handling, emptyBatch >>
    /\ UNCHANGED << callVars, mainVars >>

\* run(): bot.on_start completes; an exception of it leaves run()
OnStart ==
    /\ pc = "on_start"
    /\ \E outcome \in HandlerOutcomes :
          IF outcome.tag = "return"
          THEN /\ pc' = "while" /\ exc' = exc /\ startReturned' = TRUE
               /\ startRaised' = "none"
          ELSE /\ pc' = "raised" /\ exc' = outcome.exc /\ startReturned' = FALSE
               /\ startRaised' = outcome.exc
    /\ UNCHANGED << offset, is_stopped, updates, idx, requested, fetches,
                    lastFetch, beforeBad, received, delivered, processed,
                    lastOutcome, contractKept, stopMark >>
    /\ UNCHANGED << midStop, starts, inFlight, handling, emptyBatch >>
    /\ UNCHANGED << callVars, mainVars >>

\* faulty variant: is_stopped is tested after loop() instead of before it
While_TestAfterLoop ==
    /\ pc = "while"
    /\ IF is_stopped /\ fetches > 0
       THEN /\ pc' = "returned"
            /\ UNCHANGED << requested, fetches, inFlight >>
       ELSE /\ fetches < MaxFetch
            /\ pc' = "get_updates"
            /\ requested' = offset
            /\ fetches' = fetches + 1
            /\ inFlight' = inFlight + 1
    /\ UNCHANGED << offset, is_stopped, updates, idx, exc, lastFetch, beforeBad,
                    received, delivered, processed, lastOutcome, startReturned,
                    contractKept, stopMark >>
    /\ UNCHANGED << midStop, starts, startRaised, handling, emptyBatch >>
    /\ UNCHANGED << callVars, mainVars >>

\* faulty variant: `while True`, is_stopped is never tested
While_Forever ==
    /\ pc = "while"
    /\ IF FALSE
       THEN /\ pc' = "returned"
            /\ UNCHANGED << requested, fetches, inFlight >>
       ELSE /\ fetches < MaxFetch
            /\ pc' = "get_updates"
            /\ requested' = offset
            /\ fetches' = fetches + 1
            /\ inFlight' = inFlight + 1
    /\ UNCHANGED << offset, is_stopped, updates, idx, exc, lastFetch, beforeBad,
                    received, delivered, processed, lastOutcome, startReturned,
                    contractKept, stopMark >>
    /\ UNCHANGED << midStop, starts, startRaised, handling, emptyBatch >>
    /\ UNCHANGED << callVars, mainVars >>

\* run(): `while not self.is_stopped`, then loop() up to the await of
\* telegram.get_updates(self.offset, self.limit, self.timeout)
While ==
    /\ pc = "while"
    /\ IF is_stopped
       THEN /\ pc' = "returned"
            /\ UNCHANGED << requested, fetches, inFlight >>
       ELSE /\ fetches < MaxFetch
            /\ pc' = "get_updates"
            /\ requested' = offset
            /\ fetches' = fetches + 1
            /\ inFlight' = inFlight + 1
    /\ UNCHANGED << offset, is_stopped, updates, idx, exc, lastFetch, beforeBad,
                    received, delivered, processed, lastOutcome, startReturned,
                    contractKept, stopMark >>
    /\ UNCHANGED << midStop, starts, startRaised, handling, emptyBatch >>
    /\ UNCHANGED << callVars, mainVars >>

\* loop(): get_updates completes.  An Exception is logged and loop()
\* returns; otherwise the for statement starts on the decoded list.
\* The transport may break the contract of getUpdates, once in a run.
GetUpdates ==
    /\ pc = "get_updates"
    /\ \E case \in FetchCases :
          LET r == case.outcome IN
          /\ beforeBad' = case.beforeBad
          /\ lastFetch' = FetchKind(r)
          /\ emptyBatch' = (r.tag = "return" /\ r.value = << >>)
          /\ inFlight' = inFlight - 1
          /\ IF r.tag = "raise"
             THEN /\ IF Caught(r.exc)
                     THEN pc' = "while" /\ exc' = exc
                     ELSE pc' = "raised" /\ exc' = r.exc
                  /\ UNCHANGED << updates, idx, received, contractKept >>
             ELSE /\ contractKept \/ KeepsContract(r.value, requested)
                  /\ pc' = "for"
                  /\ updates' = r.value
                  /\ idx' = 1
                  /\ received' = received \o ids(r.value)
                  /\ contractKept' = (contractKept /\ KeepsContract(r.value, requested))
                  /\ exc' = exc
    /\ UNCHANGED << offset, is_stopped, requested, fetches, delivered,
                    processed, lastOutcome, startReturned, stopMark >>
    /\ UNCHANGED << midStop, starts, startRaised, handling >>
    /\ UNCHANGED << callVars, mainVars >>

\* faulty variant: the offset is advanced when the update is handed to the handler
For_AdvanceAtDispatch ==
    /\ pc = "for"
    /\ IF idx <= Len(updates)
       THEN /\ pc' = "on_update"
            /\ delivered' = Append(delivered, updates[idx].id)
            /\ handling' = handling + 1
            /\ offset' = NextOffset(updates[idx])
            /\ UNCHANGED << updates, idx >>
       ELSE /\ pc' = "while"
            /\ delivered' = delivered
            /\ handling' = handling
            /\ updates' = << >>
            /\ idx' = 1
            /\ offset' = offset
    /\ UNCHANGED << is_stopped, requested, exc, fetches, lastFetch,
                    beforeBad, received, processed, lastOutcome, startReturned,
                    contractKept, stopMark >>
    /\ UNCHANGED << midStop, starts, startRaised, inFlight, emptyBatch >>
    /\ UNCHANGED << callVars, mainVars >>

\* faulty variant: the for statement ends as soon as is_stopped is set
For_BreakWhenStopped ==
    /\ pc = "for"
    /\ IF idx <= Len(updates) /\ ~is_stopped
       THEN /\ pc' = "on_update"
            /\ delivered' = Append(delivered, updates[idx].id)
            /\ handling' = handling + 1
            /\ UNCHANGED << updates, idx >>
       ELSE /\ pc' = "while"
            /\ delivered' = delivered
            /\ handling' = handling
            /\ updates' = << >>
            /\ idx' = 1
    /\ UNCHANGED << offset, is_stopped, requested, exc, fetches, lastFetch,
                    beforeBad, received, processed, lastOutcome, startReturned,
                    contractKept, stopMark >>
    /\ UNCHANGED << midStop, starts, startRaised, inFlight, emptyBatch >>
    /\ UNCHANGED << callVars, mainVars >>

\* faulty variant: on_update is scheduled as a task and not awaited
For_FireAndForget ==
    /\ pc = "for"
    /\ IF idx <= Len(updates)
       THEN /\ pc' = "for"
            /\ delivered' = Append(delivered, updates[idx].id)
            /\ handling' = handling + 1
            /\ offset' = NextOffset(updates[idx])
            /\ idx' = idx + 1
            /\ updates' = updates
       ELSE /\ pc' = "while"
            /\ delivered' = delivered
            /\ handling' = handling
            /\ offset' = offset
            /\ updates' = << >>
            /\ idx' = 1
    /\ UNCHANGED << is_stopped, requested, exc, fetches, lastFetch,
                    beforeBad, received, processed, lastOutcome, startReturned,
                    contractKept, stopMark >>
    /\ UNCHANGED << midStop, starts, startRaised, inFlight, emptyBatch >>
    /\ UNCHANGED << callVars, mainVars >>

\* faulty variant: the offset is taken from updates[-1] after the for
\* statement, which raises IndexError on an empty list
For_LastAfterLoop ==
    /\ pc = "for"
    /\ IF idx <= Len(updates)
       THEN /\ pc' = "on_update"
            /\ delivered' = Append(delivered, updates[idx].id)
            /\ handling' = handling + 1
            /\ UNCHANGED << updates, idx, offset, exc >>
       ELSE IF updates = << >>
       THEN /\ pc' = "raised"
            /\ exc' = "Exception"
            /\ UNCHANGED << delivered, handling, offset, updates, idx >>
       ELSE /\ pc' = "while"
            /\ offset' = NextOffset(updates[Len(updates)])
            /\ delivered' = delivered
            /\ handling' = handling
            /\ updates' = << >>
            /\ idx' = 1
            /\ exc' = exc
    /\ UNCHANGED << is_stopped, requested, fetches, lastFetch,
                    beforeBad, received, processed, lastOutcome, startReturned,
                    contractKept, stopMark >>
    /\ UNCHANGED << midStop, starts, startRaised, inFlight, emptyBatch >>
    /\ UNCHANGED << callVars, mainVars >>

\* loop(): `for update in updates`: the next update is handed to
\* bot.on_update, or the list is exhausted and loop() returns (its locals
\* updates and update are gone)
For ==
    /\ pc = "for"
    /\ IF idx <= Len(updates)
       THEN /\ pc' = "on_update"
            /\ delivered' = Append(delivered, updates[idx].id)
            /\ handling' = handling + 1
            /\ UNCHANGED << updates, idx >>
       ELSE /\ pc' = "while"
            /\ delivered' = delivered
            /\ handling' = handling
            /\ updates' = << >>
            /\ idx' = 1
    /\ UNCHANGED << offset, is_stopped, requested, exc, fetches, lastFetch,
                    beforeBad, received, processed, lastOutcome, startReturned,
                    contractKept, stopMark >>
    /\ UNCHANGED << midStop, starts, startRaised, inFlight, emptyBatch >>
    /\ UNCHANGED << callVars, mainVars >>

\* faulty variant: the assignment of the offset sits inside the try block, so an
\* Exception of the handler skips it
OnUpdate_AdvanceOnSuccess ==
    /\ pc = "on_update"
    /\ \E outcome \in HandlerOutcomes :
          /\ lastOutcome' = OutcomeKind(outcome)
          /\ handling' = handling - 1
          /\ processed' = IF OutcomeKind(outcome) = "interrupted"
                          THEN processed
                          ELSE Append(processed, updates[idx].id)
          /\ IF outcome.tag = "return" \/ Caught(outcome.exc)
             THEN /\ offset' = IF outcome.tag = "return"
                               THEN NextOffset(updates[idx]) ELSE offset
                  /\ idx' = idx + 1
                  /\ pc' = "for"
                  /\ UNCHANGED << exc, updates >>
             ELSE /\ pc' = "raised"
                  /\ exc' = outcome.exc
                  /\ UNCHANGED << offset, idx, updates >>
    /\ UNCHANGED << is_stopped, requested, fetches, lastFetch, beforeBad,
                    received, delivered, startReturned, contractKept, stopMark >>
    /\ UNCHANGED << midStop, starts, startRaised, inFlight, emptyBatch >>
    /\ UNCHANGED << callVars, mainVars >>

\* faulty variant: the try statement encloses the whole for statement, so an
\* Exception of the handler ends the cycle
OnUpdate_AbortBatch ==
    /\ pc = "on_update"
    /\ \E outcome \in HandlerOutcomes :
          /\ lastOutcome' = OutcomeKind(outcome)
          /\ handling' = handling - 1
          /\ processed' = IF OutcomeKind(outcome) = "interrupted"
                          THEN processed
                          ELSE Append(processed, updates[idx].id)
          /\ IF outcome.tag = "return"
             THEN /\ offset' = NextOffset(updates[idx])
                  /\ idx' = idx + 1
                  /\ pc' = "for"
                  /\ UNCHANGED << exc, updates >>
             ELSE IF Caught(outcome.exc)
             THEN /\ pc' = "while"
                  /\ updates' = << >>
                  /\ idx' = 1
                  /\ UNCHANGED << exc, offset >>
             ELSE /\ pc' = "raised"
                  /\ exc' = outcome.exc
                  /\ UNCHANGED << offset, idx, updates >>
    /\ UNCHANGED << is_stopped, requested, fetches, lastFetch, beforeBad,
                    received, delivered, startReturned, contractKept, stopMark >>
    /\ UNCHANGED << midStop, starts, startRaised, inFlight, emptyBatch >>
    /\ UNCHANGED << callVars, mainVars >>

\* faulty variant: the offset never moves backwards,
\* self.offset = max(self.offset, update.id + 1)
OnUpdate_KeepMax ==
    /\ pc = "on_update"
    /\ \E outcome \in HandlerOutcomes :
          /\ lastOutcome' = OutcomeKind(outcome)
          /\ handling' = handling - 1
          /\ processed' = IF OutcomeKind(outcome) = "interrupted"
                          THEN processed
                          ELSE Append(processed, updates[idx].id)
          /\ IF outcome.tag = "return" \/ Caught(outcome.exc)
             THEN /\ offset' = IF offset > NextOffset(updates[idx])
                                THEN offset
                                ELSE NextOffset(updates[idx])
                  /\ idx' = idx + 1
                  /\ pc' = "for"
                  /\ UNCHANGED << exc, updates >>
             ELSE /\ pc' = "raised"
                  /\ exc' = outcome.exc
                  /\ UNCHANGED << offset, idx, updates >>
    /\ UNCHANGED << is_stopped, requested, fetches, lastFetch, beforeBad,
                    received, delivered, startReturned, contractKept, stopMark >>
    /\ UNCHANGED << midStop, starts, startRaised, inFlight, emptyBatch >>
    /\ UNCHANGED << callVars, mainVars >>

\* faulty variant: self.offset += 1
OnUpdate_Increment ==
    /\ pc = "on_update"
    /\ \E outcome \in HandlerOutcomes :
          /\ lastOutcome' = OutcomeKind(outcome)
          /\ handling' = handling - 1
          /\ processed' = IF OutcomeKind(outcome) = "interrupted"
                          THEN processed
                          ELSE Append(processed, updates[idx].id)
          /\ IF outcome.tag = "return" \/ Caught(outcome.exc)
             THEN /\ offset' = offset + 1
                  /\ idx' = idx + 1
                  /\ pc' = "for"
                  /\ UNCHANGED << exc, updates >>
             ELSE /\ pc' = "raised"
                  /\ exc' = outcome.exc
                  /\ UNCHANGED << offset, idx, updates >>
    /\ UNCHANGED << is_stopped, requested, fetches, lastFetch, beforeBad,
                    received, delivered, startReturned, contractKept, stopMark >>
    /\ UNCHANGED << midStop, starts, startRaised, inFlight, emptyBatch >>
    /\ UNCHANGED << callVars, mainVars >>

\* loop(): bot.on_update completes.  An Exception is logged; then
\* self.offset = update.id + 1 and the for statement goes on
OnUpdate ==
    /\ pc = "on_update"
    /\ \E outcome \in HandlerOutcomes :
          /\ lastOutcome' = OutcomeKind(outcome)
          /\ handling' = handling - 1
          /\ processed' = IF OutcomeKind(outcome) = "interrupted"
                          THEN processed
                          ELSE Append(processed, updates[idx].id)
          /\ IF outcome.tag = "return" \/ Caught(outcome.exc)
             THEN /\ offset' = NextOffset(updates[idx])
                  /\ idx' = idx + 1
                  /\ pc' = "for"
                  /\ UNCHANGED << exc, updates >>
             ELSE /\ pc' = "raised"
                  /\ exc' = outcome.exc
                  /\ UNCHANGED << offset, idx, updates >>
    /\ UNCHANGED << is_stopped, requested, fetches, lastFetch, beforeBad,
                    received, delivered, startReturned, contractKept, stopMark >>
    /\ UNCHANGED << midStop, starts, startRaised, inFlight, emptyBatch >>
    /\ UNCHANGED << callVars, mainVars >>

\* stop(): may be called at any moment, by the host program
Stop ==
    /\ is_stopped' = TRUE
    /\ stopMark' = IF stopMark = -1 /\ pc \in {"idle", "on_start", "while"}
                   THEN fetches ELSE stopMark
    /\ midStop' = IF midStop = -1 /\ pc \in {"get_updates", "for", "on_update"}
                  THEN fetches ELSE midStop
    /\ UNCHANGED << pc, offset, updates, idx, requested, exc, fetches,
                    lastFetch, beforeBad, received, delivered, processed,
                    lastOutcome, startReturned, contractKept >>
    /\ UNCHANGED << starts, startRaised, inFlight, handling, emptyBatch >>
    /\ UNCHANGED << callVars, mainVars >>

Next == Run \/ OnStart \/ While \/ GetUpdates \/ For \/ OnUpdate \/ Stop

Spec == Init /\ [][Next]_vars

\* a step of the coroutine run(): at most one of these is enabled in a
\* state, whatever pc is
RunStep == OnStart \/ While \/ GetUpdates \/ For \/ OnUpdate

\* the event loop keeps running the coroutine, and the awaited calls
\* (on_start, get_updates, on_update) complete
Fairness == WF_vars(RunStep)

FairSpec == Spec /\ Fairness

(***************************************************************************)
(* A scripted transport and bot: the first get_updates call returns two     *)
(* updates with the ids k and k + 1, the second an empty list; during the   *)
(* third call stop() is called, and the call returns an empty list.  The    *)
(* on_update call for the second update raises an Exception.                *)
(***************************************************************************)
FirstIds == 0..MaxFirstId

ScriptedReply(call, k) ==
    [kind |-> "json",
     payload |-> [ok |-> TRUE,
                  result |-> IF call = 1
                             THEN << [update_id |-> k, message |-> GoodMessage],
                                     [update_id |-> k + 1, message |-> GoodMessage] >>
                             ELSE << >>]]

\* how the scripted get_updates calls end: the outcome of each call, and
\* what the reply was like
ScriptedCases ==
    [call \in 1..MaxFetch, k \in FirstIds |->
        [outcome |-> get_updates(ScriptedReply(call, k)),
         beforeBad |-> DecodedBeforeBad(ScriptedReply(call, k))]]

\* loop(): the scripted get_updates call completes
ScriptedGetUpdates ==
    /\ pc = "get_updates"
    /\ fetches = 3 => is_stopped
    /\ \E k \in IF fetches = 1 THEN FirstIds ELSE {0} :
          LET r == ScriptedCases[fetches, k].outcome IN
          /\ beforeBad' = ScriptedCases[fetches, k].beforeBad
          /\ lastFetch' = FetchKind(r)
          /\ emptyBatch' = (r.tag = "return" /\ r.value = << >>)
          /\ inFlight' = inFlight - 1
          /\ IF r.tag = "raise"
             THEN /\ IF Caught(r.exc)
                     THEN pc' = "while" /\ exc' = exc
                     ELSE pc' = "raised" /\ exc' = r.exc
                  /\ UNCHANGED << updates, idx, received, contractKept >>
             ELSE /\ pc' = "for"
                  /\ updates' = r.value
                  /\ idx' = 1
                  /\ received' = received \o ids(r.value)
                  /\ contractKept' = (contractKept /\ KeepsContract(r.value, requested))
                  /\ exc' = exc
    /\ UNCHANGED << offset, is_stopped, requested, fetches, delivered,
                    processed, lastOutcome, startReturned, stopMark >>
    /\ UNCHANGED << midStop, starts, startRaised, handling >>
    /\ UNCHANGED << callVars, mainVars >>

\* loop(): the on_update call of the scripted bot completes
ScriptedOnUpdate ==
    /\ OnUpdate
    /\ lastOutcome' = IF idx = 2 THEN "raise" ELSE "return"

\* the scripted transport calls stop() during its third call
ScriptedStop ==
    /\ pc = "get_updates"
    /\ fetches = 3
    /\ Stop

NextScripted ==
    \/ Run
    \/ OnStart
    \/ While
    \/ ScriptedGetUpdates
    \/ For
    \/ ScriptedOnUpdate
    \/ ScriptedStop

SpecScripted == Init /\ [][NextScripted]_vars

\* the coroutine is run, its awaits complete, and the transport does call
\* stop() during its third call
FairScripted ==
    /\ SpecScripted
    /\ WF_vars(OnStart \/ While \/ ScriptedGetUpdates \/ For \/ ScriptedOnUpdate)
    /\ WF_vars(ScriptedStop)

(***************************************************************************)
(* The methods of Telegram as functions of their arguments: the params      *)
(* mapping each one passes to make_request.  An argument that may be None   *)
(* is None or Some(value).                                                  *)
(***************************************************************************)
\* ParseMode: the members and their values
ParseMode == {"default", "markdown", "html"}
ParseModeValue(parse_mode) ==
    CASE parse_mode = "default" -> None
      [] parse_mode = "markdown" -> Some("Markdown")
      [] parse_mode = "html" -> Some("HTML")

\* the truth value `if x:` takes for an argument that is None or a value of
\* a type whose false value is zero (0 for int, "" for str, [] for a list)
truth(x, zero) == x # None /\ x[1] # zero

\* str(n) of a small number, str(b) of a bool
str(v) ==
    CASE v = 0 -> "0"
      [] v = 1 -> "1"
      [] v = 2 -> "2"

str_bool(b) == IF b THEN "True" ELSE "False"

\* json.dumps(list(items))
json_dumps(items) == [json |-> items]

\* params[key] = value when cond holds
With(cond, key, value, params) == IF cond THEN (key :> value) @@ params ELSE params

\* the same for an argument x that may be None: the value sent is x itself
WithValueOf(cond, key, x, params) == IF cond THEN (key :> x[1]) @@ params ELSE params

send_message(a) ==
    LET p0 == [chat_id |-> a.chat_id, text |-> a.text]
        p1 == WithValueOf(a.parse_mode # "default", "parse_mode",
                          ParseModeValue(a.parse_mode), p0)
        p2 == With(a.disable_web_page_preview, "disable_web_page_preview",
                   a.disable_web_page_preview, p1)
        p3 == WithValueOf(a.reply_to_message_id # None, "reply_to_message_id",
                          a.reply_to_message_id, p2)
    IN WithValueOf(a.reply_markup # None, "reply_markup", a.reply_markup, p3)

edit_message_text(a) ==
    LET p0 == [text |-> a.text]
        p1 == WithValueOf(truth(a.chat_id, 0), "chat_id", a.chat_id, p0)
        p2 == WithValueOf(truth(a.message_id, 0), "message_id", a.message_id, p1)
        p3 == WithValueOf(truth(a.inline_message_id, ""), "inline_message_id",
                          a.inline_message_id, p2)
        p4 == WithValueOf(a.parse_mode # "default", "parse_mode",
                          ParseModeValue(a.parse_mode), p3)
        p5 == With(a.disable_web_page_preview, "disable_web_page_preview",
                   a.disable_web_page_preview, p4)
    IN WithValueOf(a.reply_markup # None, "reply_markup", a.reply_markup, p5)

answer_callback_query(a) ==
    LET p0 == [callback_query_id |-> a.callback_query_id]
        p1 == WithValueOf(truth(a.text, ""), "text", a.text, p0)
    IN With(a.show_alert, "show_alert", a.show_alert, p1)

send_location(a) ==
    LET p0 == [chat_id |-> a.chat_id, latitude |-> a.latitude, longitude |-> a.longitude]
        p1 == With(a.disable_notification, "disable_notification",
                   a.disable_notification, p0)
        p2 == WithValueOf(truth(a.reply_to_message_id, 0), "reply_to_message_id",
                          a.reply_to_message_id, p1)
    IN WithValueOf(truth(a.reply_markup, ""), "reply_markup", a.reply_markup, p2)

set_webhook(a) ==
    LET p0 == [url |-> a.url]
        p1 == WithValueOf(truth(a.certificate, ""), "certificate", a.certificate, p0)
        p2 == WithValueOf(truth(a.max_connections, 0), "max_connections",
                          a.max_connections, p1)
    IN IF truth(a.allowed_updates, << >>)
       THEN ("allowed_updates" :> json_dumps(a.allowed_updates[1])) @@ p2
       ELSE p2

send_document(a) ==
    LET p0 == [chat_id |-> str(a.chat_id), document |-> a.document]
        p1 == WithValueOf(truth(a.caption, ""), "caption", a.caption, p0)
        p2 == With(a.disable_notification, "disable_notification",
                   str_bool(a.disable_notification), p1)
        p3 == IF truth(a.reply_to_message_id, 0)
              THEN ("reply_to_message_id" :> str(a.reply_to_message_id[1])) @@ p2
              ELSE p2
    IN WithValueOf(truth(a.reply_markup, ""), "reply_markup", a.reply_markup, p3)

(***************************************************************************)
(* Calls of the methods and of the decoder on their own: the arguments are  *)
(* drawn from small sets, op, input and output record the call.  The        *)
(* methods keep no state between calls, a behaviour is one call.            *)
(***************************************************************************)
OptionalInts == {None, Some(0), Some(1)}
OptionalStrings == {None, Some(""), Some("a")}

Descriptions == {"", "boom", "Bad Request: chat not found"}

JsonResults ==
    {JsonValue("bool", FALSE), JsonValue("bool", TRUE), JsonValue("number", 0),
     JsonValue("number", 1), JsonValue("string", ""), JsonValue("string", "a"),
     JsonValue("null", "null"), JsonValue("array", << >>),
     JsonValue("array", << 0 >>)}

Payloads ==
    {[ok |-> TRUE, result |-> x] : x \in JsonResults}
    \cup {[ok |-> FALSE, description |-> d] : d \in Descriptions}

MakeRequest ==
    \E payload \in Payloads :
        /\ op = "none"
        /\ op' = "make_request"
        /\ input' = payload
        /\ output' = make_request([kind |-> "json", payload |-> payload])
        /\ UNCHANGED << runnerVars, mainVars >>

SendMessage ==
    \E a \in [chat_id : {0, 1}, text : {"", "a"}, parse_mode : {"default", "markdown"},
              disable_web_page_preview : BOOLEAN,
              reply_to_message_id : OptionalInts, reply_markup : OptionalStrings] :
        /\ op = "none"
        /\ op' = "send_message"
        /\ input' = a
        /\ output' = send_message(a)
        /\ UNCHANGED << runnerVars, mainVars >>

EditMessageText ==
    \E a \in [chat_id : OptionalInts, message_id : OptionalInts,
              inline_message_id : OptionalStrings, text : {"a"},
              parse_mode : {"default", "html"}, disable_web_page_preview : BOOLEAN,
              reply_markup : {None, Some("")}] :
        /\ op = "none"
        /\ op' = "edit_message_text"
        /\ input' = a
        /\ output' = edit_message_text(a)
        /\ UNCHANGED << runnerVars, mainVars >>

AnswerCallbackQuery ==
    \E a \in [callback_query_id : {"q"}, text : OptionalStrings, show_alert : BOOLEAN] :
        /\ op = "none"
        /\ op' = "answer_callback_query"
        /\ input' = a
        /\ output' = answer_callback_query(a)
        /\ UNCHANGED << runnerVars, mainVars >>

SendLocation ==
    \E a \in [chat_id : {0, 1}, latitude : {0}, longitude : {0},
              disable_notification : BOOLEAN,
              reply_to_message_id : OptionalInts, reply_markup : OptionalStrings] :
        /\ op = "none"
        /\ op' = "send_location"
        /\ input' = a
        /\ output' = send_location(a)
        /\ UNCHANGED << runnerVars, mainVars >>

SetWebhook ==
    \E a \in [url : {"", "https://example.org/hook"}, certificate : OptionalStrings,
              max_connections : OptionalInts,
              allowed_updates : {None, Some(<< >>), Some(<< "message" >>)}] :
        /\ op = "none"
        /\ op' = "set_webhook"
        /\ input' = a
        /\ output' = set_webhook(a)
        /\ UNCHANGED << runnerVars, mainVars >>

SendDocument ==
    \E a \in [chat_id : {0, 1}, document : {"file_id"}, caption : OptionalStrings,
              disable_notification : BOOLEAN,
              reply_to_message_id : OptionalInts, reply_markup : OptionalStrings] :
        /\ op = "none"
        /\ op' = "send_document"
        /\ input' = a
        /\ output' = send_document(a)
        /\ UNCHANGED << runnerVars, mainVars >>

\* for every optional key of a message, a value that is zero, false or empty
\* (for an object: its required keys with such values)
ZeroUser == [id |-> 0, first_name |-> ""]
ZeroChat == [id |-> 0, type |-> "private"]
ZeroPhotoSize == [file_id |-> "", width |-> 0, height |-> 0]
ZeroLocation == [longitude |-> 0, latitude |-> 0]

MessageZero ==
    [from |-> ZeroUser, forward_from |-> ZeroUser, forward_from_chat |-> ZeroChat,
     forward_date |-> 0,
     reply_to_message |-> [message_id |-> 0, date |-> 0, chat |-> ZeroChat],
     edit_date |-> 0, text |-> "", entities |-> << >>,
     audio |-> [file_id |-> "", duration |-> 0],
     document |-> [file_id |-> ""], photo |-> << >>,
     sticker |-> ZeroPhotoSize,
     video |-> [file_id |-> "", width |-> 0, height |-> 0, duration |-> 0],
     voice |-> [file_id |-> "", duration |-> 0], caption |-> "",
     contact |-> [phone_number |-> "", first_name |-> ""],
     location |-> ZeroLocation,
     venue |-> [location |-> ZeroLocation, title |-> "", address |-> ""],
     new_chat_member |-> ZeroUser, left_chat_member |-> ZeroUser,
     new_chat_title |-> "", new_chat_photo |-> << >>,
     delete_chat_photo |-> FALSE, group_chat_created |-> FALSE,
     supergroup_chat_created |-> FALSE, channel_chat_created |-> FALSE,
     migrate_to_chat_id |-> 0, migrate_from_chat_id |-> 0,
     pinned_message |-> [message_id |-> 0, date |-> 0, chat |-> ZeroChat]]

\* messages with no optional key, with one optional key, with all of them,
\* and one whose chat does not decode
MessageInputs ==
    {GoodMessage, MessageZero @@ GoodMessage, BadEnumMessage}
    \cup {(k :> MessageZero[k]) @@ GoodMessage : k \in DOMAIN MessageZero}

MessageKeys == {"message", "edited_message", "channel_post", "edited_channel_post"}

UpdateInputs ==
    {[update_id |-> 0]}
    \cup {(f :> m) @@ [update_id |-> 0] : f \in MessageKeys, m \in MessageInputs}
    \cup {[update_id |-> 0,
           inline_query |-> [id |-> "", from |-> ZeroUser, query |-> "", offset |-> ""]],
          [update_id |-> 0,
           chosen_inline_result |-> [result_id |-> "", from |-> ZeroUser, query |-> ""]],
          [update_id |-> 0,
           callback_query |-> [id |-> "", from |-> ZeroUser, data |-> ""]]}

DecodeUpdate ==
    \E update \in UpdateInputs :
        /\ op = "none"
        /\ op' = "Update"
        /\ input' = update
        /\ output' = Update(update)
        /\ UNCHANGED << runnerVars, mainVars >>

NextApi ==
    \/ MakeRequest
    \/ SendMessage
    \/ EditMessageText
    \/ AnswerCallbackQuery
    \/ SendLocation
    \/ SetWebhook
    \/ SendDocument
    \/ DecodeUpdate

\* one call of one method, on its own
SpecApi == Init /\ [][NextApi]_vars

\* run() called once more on a runner whose earlier run() has ended: the
\* method has no guard and resets nothing, it awaits bot.on_start and enters
\* the while statement with the offset and the is_stopped flag left behind
RunAgain ==
    /\ pc \in {"returned", "raised"}
    /\ starts < MaxRuns
    /\ pc' = "on_start"
    /\ exc' = "none"
    /\ starts' = starts + 1
    /\ UNCHANGED << offset, is_stopped, updates, idx, requested, fetches,
                    lastFetch, beforeBad, received, delivered, processed,
                    lastOutcome, startReturned, contractKept, stopMark >>
    /\ UNCHANGED << midStop, startRaised, inFlight, handling, emptyBatch >>
    /\ UNCHANGED << callVars, mainVars >>

NextLifecycle == Next \/ RunAgain

\* the runner as an object whose run() may be called again after it ended
SpecLifecycle == Init /\ [][NextLifecycle]_vars

(***************************************************************************)
(* main() and async_main() of the command line.  The runner is the one of  *)
(* run(), loop() and stop(); its steps are taken while the event loop runs *)
(* and the task of async_main is pending.  A SIGINT makes Python raise      *)
(* KeyboardInterrupt in the code that is running: in the event loop, which  *)
(* waits for input while the task is suspended at an await, or in the code  *)
(* of the task; in the latter case it is the "BaseException" with which an  *)
(* awaited call of the runner ends.                                         *)
(***************************************************************************)
\* how the CLASS argument resolves: split raises ValueError, import_module
\* raises ImportError, getattr raises AttributeError, the attribute is not a
\* class, the class is not a subclass of Bot, the class is a subclass of Bot
Selectors == {"no_dot", "no_module", "no_attribute", "not_a_class", "not_a_bot", "bot"}

\* the selectors the except clauses of main() answer by parser.error
BadSelectors == {"no_dot", "no_module", "no_attribute"}

\* main(): parse_args and the try statement that resolves the class;
\* parser.error prints the usage and exits, issubclass raises TypeError for
\* an attribute that is not a class
InstantiateBot ==
    /\ main = "parse_args"
    /\ \E c \in Selectors :
          /\ class_' = c
          /\ main' = IF c \in BadSelectors THEN "usage_error"
                     ELSE IF c = "not_a_class" THEN "type_error"
                     ELSE "set_up"
    /\ UNCHANGED << session, task >>
    /\ UNCHANGED << runnerVars, callVars >>

\* main(): the connector, Telegram (which opens the session) and the runner
\* are constructed; run_until_complete makes the task of async_main
\* (`async with runner` enters the session, which stays open)
SetUp ==
    /\ main = "set_up"
    /\ session' = "open"
    /\ task' = "pending"
    /\ main' = "run_until_complete"
    /\ UNCHANGED class_
    /\ UNCHANGED << runnerVars, callVars >>

\* the event loop runs in one of the two run_until_complete calls
EventLoopRuns == main \in {"run_until_complete", "gather"}

\* async_main: `await runner.run()`, a step of the runner.  The interrupt
\* is delivered once: no KeyboardInterrupt inside the task while main()
\* waits in the finally clause
TaskStep ==
    /\ EventLoopRuns
    /\ task = "pending"
    /\ Run \/ OnStart \/ While \/ GetUpdates \/ For \/ OnUpdate
    /\ (pc' = "raised" /\ ~IsException(exc')) => main = "run_until_complete"

\* async_main: run() has returned or raised; `async with` leaves through
\* __aexit__, which closes the session, and the task is done
AsyncMainExit ==
    /\ EventLoopRuns
    /\ task = "pending"
    /\ pc \in {"returned", "raised"}
    /\ session' = "closed"
    /\ task' = IF pc = "returned" THEN "done" ELSE "raised"
    /\ UNCHANGED << main, class_ >>
    /\ UNCHANGED << runnerVars, callVars >>

\* main(): KeyboardInterrupt is raised in the event loop while the task is
\* suspended at an await (or not yet started); it leaves the first
\* run_until_complete, the except clause calls runner.stop() and the
\* finally clause starts the second run_until_complete
KeyboardInterrupt ==
    /\ main = "run_until_complete"
    /\ task = "pending"
    /\ pc \in {"idle", "on_start", "get_updates", "on_update"}
    /\ main' = "gather"
    /\ is_stopped' = TRUE
    /\ stopMark' = IF stopMark = -1 /\ pc \in {"idle", "on_start", "while"}
                   THEN fetches ELSE stopMark
    /\ midStop' = IF midStop = -1 /\ pc \in {"get_updates", "for", "on_update"}
                  THEN fetches ELSE midStop
    /\ UNCHANGED << pc, offset, updates, idx, requested, exc, fetches,
                    lastFetch, beforeBad, received, delivered, processed,
                    lastOutcome, startReturned, contractKept >>
    /\ UNCHANGED << starts, startRaised, inFlight, handling, emptyBatch >>
    /\ UNCHANGED << class_, session, task >>
    /\ UNCHANGED callVars

\* main(): the first run_until_complete ends with the task: it returns the
\* result or raises the exception of the task; for KeyboardInterrupt the
\* except clause calls runner.stop() (run() has ended, so the marks of the
\* fetch in progress stay as they are); then the finally clause
RunUntilCompleteEnds ==
    /\ main = "run_until_complete"
    /\ task \in {"done", "raised"}
    /\ main' = "gather"
    /\ is_stopped' = (is_stopped \/ (task = "raised" /\ ~IsException(exc)))
    /\ UNCHANGED << pc, offset, updates, idx, requested, exc, fetches,
                    lastFetch, beforeBad, received, delivered, processed,
                    lastOutcome, startReturned, contractKept, stopMark >>
    /\ UNCHANGED << midStop, starts, startRaised, inFlight, handling, emptyBatch >>
    /\ UNCHANGED << class_, session, task >>
    /\ UNCHANGED callVars

\* main(): the finally clause, run_until_complete(gather(*all_tasks()))
\* ends when the task is done, and close() follows unless gather raised.
\* gather raises the exception of a task that raised.  all_tasks() is a
\* weak set: a task that ended with KeyboardInterrupt before the finally
\* clause is kept alive only by a reference cycle, so it may have been
\* collected, and then gather has nothing to raise
Gather ==
    /\ main = "gather"
    /\ task \in {"done", "raised"}
    /\ main' \in IF task = "done" THEN {"closed"}
                 ELSE IF IsException(exc) THEN {"failed"}
                 ELSE {"closed", "failed"}
    /\ UNCHANGED << class_, session, task >>
    /\ UNCHANGED << runnerVars, callVars >>

NextMain ==
    \/ InstantiateBot
    \/ SetUp
    \/ TaskStep
    \/ AsyncMainExit
    \/ KeyboardInterrupt
    \/ RunUntilCompleteEnds
    \/ Gather

\* the command line: python -m aiotg
SpecMain == Init /\ [][NextMain]_vars

(***************************************************************************)
(* Properties.                                                              *)
(***************************************************************************)
IsPrefix(s, t) == Len(s) <= Len(t) /\ \A i \in 1..Len(s) : s[i] = t[i]

Last(s) == s[Len(s)]

SeqMax(s) == CHOOSE m \in {s[i] : i \in 1..Len(s)} : \A i \in 1..Len(s) : s[i] <= m

\* the updates of the current batch that the for statement has not reached
Pending ==
    IF pc = "for" THEN Len(updates) - idx + 1
    ELSE IF pc = "on_update" THEN Len(updates) - idx
    ELSE 0

\* C1: while every batch keeps the contract of getUpdates (ascending ids,
\* none below the requested offset), on_update is invoked with the updates
\* of the returned batches in the order they were returned, each once and
\* in ascending order of id over the whole run, and when a cycle is over
\* every update returned so far has been handed to on_update.  (This holds
\* also when on_update raises an Exception.)
C1_ExactlyOnceInOrder ==
    (contractKept /\ pc # "raised") =>
        /\ Ascending(delivered)
        /\ IsPrefix(delivered, received)
        /\ Len(delivered) = Len(received) - Pending

C1_Witness ==
    /\ contractKept
    /\ pc = "while"
    /\ fetches >= 2
    /\ Len(delivered) > limit
    /\ delivered = received

\* C2: while a get_updates call is in flight and some update has been
\* handed to on_update before, the offset the call requested is the id of
\* the last such update plus one, however its on_update ended.
C2_NextFetchAfterEvent ==
    (pc = "get_updates" /\ delivered # << >>) => requested = Last(delivered) + 1

C2_Witness ==
    /\ pc = "get_updates"
    /\ delivered # << >>
    /\ lastOutcome = "raise"
    /\ requested = Last(delivered) + 1

\* C3: a step in which get_updates fails with an Exception ends the cycle:
\* the offset is the one the cycle started with, nothing is handed to
\* on_update, and the next call requests the same offset again.
C3_FailedFetchStep ==
    (pc = "get_updates" /\ pc' # pc /\ lastFetch' = "failed") =>
        /\ pc' = "while"
        /\ offset' = offset
        /\ offset' = requested
        /\ delivered' = delivered
        /\ updates' = << >>

C3_RetryStep ==
    (pc = "while" /\ pc' = "get_updates" /\ lastFetch = "failed") =>
        /\ requested' = requested
        /\ delivered' = delivered

C3_FailedFetchKeepsOffset ==
    /\ [][C3_FailedFetchStep]_vars
    /\ [][C3_RetryStep]_vars

C3_Witness ==
    /\ pc = "get_updates"
    /\ lastFetch = "failed"
    /\ beforeBad = -1
    /\ fetches >= 2
    /\ requested = offset
    /\ offset > 0

C6_AdvanceAfterHandler ==
    /\ (pc = "on_update" /\ contractKept) => offset <= updates[idx].id
    /\ pc \in {"for", "on_update"} =>
           offset = IF idx = 1 THEN requested ELSE updates[idx - 1].id + 1

C6_Witness ==
    /\ contractKept
    /\ pc = "on_update"
    /\ idx = 2
    /\ offset = updates[1].id + 1
    /\ offset < updates[2].id

\* C7: a step in which on_update raises an Exception stays inside loop():
\* the for statement goes on with the next update of the same batch, the
\* offset is the id of the failing update plus one and run() has not
\* ended; so the updates of a batch are all handed to on_update before the
\* cycle is over.
C7_HandlerErrorStep ==
    (pc = "on_update" /\ pc' # pc /\ lastOutcome' = "raise") =>
        /\ pc' = "for"
        /\ updates' = updates
        /\ idx' = idx + 1
        /\ offset' = updates[idx].id + 1
        /\ exc' = "none"

C7_HandlerErrorIsolated ==
    /\ [][C7_HandlerErrorStep]_vars
    /\ [](pc \in {"while", "get_updates", "returned"} => delivered = received)
    /\ [](pc \in {"for", "on_update"} =>
              /\ IsPrefix(delivered, received)
              /\ Len(delivered) = Len(received) - Pending)

C7_Witness ==
    /\ pc = "on_update"
    /\ idx = 2
    /\ lastOutcome = "raise"
    /\ offset = updates[1].id + 1
    /\ Last(delivered) = updates[2].id

\* C8: once on_start has returned, run() ends with an exception only if
\* that is no Exception (an interruption), and it returns only if stop has
\* been requested; a failed get_updates call returns to the test of the
\* while statement, and from there, unless stop has been requested, the
\* next step issues get_updates again.
C8_FailedFetchStep ==
    (pc = "get_updates" /\ pc' # pc /\ lastFetch' = "failed") => pc' = "while"

C8_RetryStep ==
    (pc = "while" /\ lastFetch = "failed" /\ ~is_stopped /\ pc' # pc) =>
        (pc' = "get_updates" /\ fetches' = fetches + 1)

C9_BadElementStep ==
    (pc = "get_updates" /\ pc' # pc /\ beforeBad' >= 0) =>
        /\ pc' = "while"
        /\ lastFetch' = "failed"
        /\ updates' = << >>
        /\ delivered' = delivered
        /\ received' = received
        /\ offset' = offset

C9_RetryStep ==
    (pc = "while" /\ beforeBad >= 0 /\ pc' = "get_updates") =>
        (requested' = requested /\ delivered' = delivered)

C9_DecodeFailureFailsCycle ==
    /\ [][C9_BadElementStep]_vars
    /\ [][C9_RetryStep]_vars
    /\ [](beforeBad >= 0 => pc \in {"while", "get_updates", "returned"})

C9_Witness ==
    /\ beforeBad >= 1
    /\ pc = "get_updates"
    /\ lastFetch = "failed"
    /\ requested = offset
    /\ offset > 0

\* C10: once stop() has been called outside a cycle (before run(), during
\* on_start or at the test of the while statement) no get_updates call is
\* issued any more, and the test of the while statement makes run() return.
C10_StoppedStep ==
    (stopMark # -1 /\ pc = "while" /\ pc' # pc) => pc' = "returned"

C10_StopBeforeCycle ==
    /\ [](stopMark # -1 => fetches = stopMark)
    /\ [](stopMark # -1 => is_stopped /\ pc # "get_updates")
    /\ [][C10_StoppedStep]_vars

C10_Witness ==
    /\ pc = "returned"
    /\ stopMark = 1
    /\ fetches = 1
    /\ delivered # << >>

\* C11: a stop() call changes nothing but is_stopped, and when it is made
\* inside a cycle (a get_updates call in flight, or the for statement at
\* work) the cycle runs to its end: no further get_updates call is issued,
\* and when run() has returned every update of the batch has been handed
\* to on_update, in order, and the offset is past the last of them.
C11_StopStep ==
    (is_stopped' # is_stopped) =>
        UNCHANGED << pc, updates, idx, offset, requested, delivered, received,
                     processed, inFlight, handling, fetches >>

C11_StopDoesNotInterrupt ==
    /\ [][C11_StopStep]_vars
    /\ [](midStop # -1 => fetches = midStop)
    /\ []((midStop # -1 /\ pc \in {"for", "on_update"}) =>
              /\ IsPrefix(delivered, received)
              /\ Len(delivered) = Len(received) - Pending)
    /\ []((midStop # -1 /\ pc = "returned") =>
              /\ delivered = received
              /\ processed = delivered
              /\ (processed # << >> => offset = Last(processed) + 1))

C11_Witness ==
    /\ pc = "returned"
    /\ midStop = 1
    /\ stopMark = -1
    /\ Len(delivered) = 2
    /\ offset = Last(delivered) + 1

\* C12: under FairSpec, once on_start has returned and stop() has been
\* called, run() ends: it returns, or an interruption (no Exception) ends
\* it. A stop request stays for good and no get_updates call is issued
\* after it, so what is left to run is the rest of the current cycle.
C12_Ended == pc = "returned" \/ (pc = "raised" /\ ~IsException(exc))

C12_StopLeadsToReturn ==
    /\ [][is_stopped => (is_stopped' /\ fetches' = fetches)]_vars
    /\ <>[]((is_stopped /\ startReturned) => C12_Ended)

C12_Witness ==
    /\ pc = "returned"
    /\ midStop = 2
    /\ lastOutcome = "raise"

\* C13: bot.on_start is invoked once, when run() is called, and it has
\* returned before any get_updates call is issued and before any update is
\* handed to on_update.
C13_OnStartOnceFirst ==
    /\ starts <= 1
    /\ pc # "idle" => starts = 1
    /\ (fetches > 0 \/ delivered # << >>) => startReturned
    /\ pc \in {"idle", "on_start"} =>
           (fetches = 0 /\ delivered = << >> /\ inFlight = 0 /\ handling = 0)

C13_Witness ==
    /\ starts = 1
    /\ startReturned
    /\ fetches >= 2
    /\ delivered # << >>

\* C14: when bot.on_start raises, run() ends with that very exception, no
\* get_updates call is ever issued, no update is handed to on_update and
\* the offset is the initial one.
C14_OnStartRaiseStep ==
    (pc = "on_start" /\ pc' # pc /\ startRaised' # "none") =>
        (pc' = "raised" /\ exc' = startRaised')

C14_OnStartErrorAborts ==
    /\ [][C14_OnStartRaiseStep]_vars
    /\ [](startRaised # "none" =>
              /\ pc = "raised"
              /\ exc = startRaised
              /\ fetches = 0
              /\ delivered = << >>
              /\ offset = 0)

C14_Witness ==
    /\ startRaised = "Exception"
    /\ pc = "raised"
    /\ exc = "Exception"
    /\ is_stopped

\* C15: the lifecycle only moves forward: a stop request is never undone,
\* bot.on_start is started at most once for a runner, and once run() has
\* ended no operation starts bot.on_start or issues a get_updates call.
C15_EndedStep ==
    (pc \in {"returned", "raised"}) =>
        (pc' = pc /\ starts' = starts /\ fetches' = fetches)

C15_LifecycleForward ==
    /\ [][is_stopped => is_stopped']_vars
    /\ [][C15_EndedStep]_vars
    /\ [](starts <= 1)

\* C16: at most one get_updates call is in flight, at most one on_update
\* call is in progress, and never both; a get_updates call is issued only
\* when every update returned before has completed its on_update call, and
\* an update is handed to on_update only when the one before has completed.
C16_IssueStep ==
    (fetches' > fetches) =>
        (handling = 0 /\ inFlight = 0 /\ Len(processed) = Len(received))

C16_DispatchStep ==
    (Len(delivered') > Len(delivered)) =>
        (handling = 0 /\ inFlight = 0 /\ processed = delivered)

C16_OneAtATime ==
    /\ [](inFlight + handling <= 1)
    /\ [](inFlight = (IF pc = "get_updates" THEN 1 ELSE 0))
    /\ [](pc # "raised" => handling = (IF pc = "on_update" THEN 1 ELSE 0))
    /\ [][C16_IssueStep]_vars
    /\ [][C16_DispatchStep]_vars

C16_Witness ==
    /\ pc = "on_update"
    /\ idx = 2
    /\ handling = 1
    /\ inFlight = 0
    /\ fetches >= 2

\* C17: a get_updates call that returns an empty list leaves the offset as
\* it is, hands nothing to on_update and raises nothing; loop() returns
\* and the next call requests the same offset.
C17_EmptyBatchStep ==
    (pc = "get_updates" /\ pc' # pc /\ emptyBatch') =>
        /\ pc' = "for"
        /\ offset' = offset
        /\ delivered' = delivered
        /\ exc' = "none"

C17_EmptyLoopStep ==
    (pc = "for" /\ emptyBatch /\ pc' # pc) =>
        /\ pc' = "while"
        /\ offset' = offset
        /\ delivered' = delivered
        /\ exc' = "none"

C17_NextCycleStep ==
    (pc = "while" /\ emptyBatch /\ pc' = "get_updates") => requested' = requested

C17_EmptyBatchNoEffect ==
    /\ [][C17_EmptyBatchStep]_vars
    /\ [][C17_EmptyLoopStep]_vars
    /\ [][C17_NextCycleStep]_vars
    /\ [](emptyBatch => (pc \in {"for", "while", "get_updates", "returned"}
                         /\ offset = requested))

C17_Witness ==
    /\ emptyBatch
    /\ pc = "get_updates"
    /\ fetches >= 2
    /\ requested = offset
    /\ offset > 0

\* C18: make_request returns payload["result"] whenever payload["ok"] is
\* true, whatever the result is (false, 0, "", [] and null included), and
\* raises TelegramException with payload["description"] as its message
\* whenever payload["ok"] is false.
C18_EnvelopeByOkOnly ==
    (op = "make_request") =>
        IF input.ok
        THEN output = Return(input.result)
        ELSE /\ output.tag = "raise"
             /\ output.exc = "TelegramException"
             /\ output.message = input.description

C18_Witness ==
    /\ op = "make_request"
    /\ input.ok
    /\ input.result = JsonValue("bool", FALSE)
    /\ output = Return(JsonValue("bool", FALSE))

\* the arguments of a method that may be left unset (None, or
\* ParseMode.default), the flags apart
OptionalParams(method) ==
    CASE method = "send_message" -> {"reply_to_message_id", "reply_markup"}
      [] method = "edit_message_text" ->
           {"chat_id", "message_id", "inline_message_id", "reply_markup"}
      [] method = "answer_callback_query" -> {"text"}
      [] method = "send_location" -> {"reply_to_message_id", "reply_markup"}
      [] method = "set_webhook" -> {"certificate", "max_connections", "allowed_updates"}
      [] method = "send_document" -> {"caption", "reply_to_message_id", "reply_markup"}

SendFamily ==
    {"send_message", "edit_message_text", "answer_callback_query",
     "send_location", "set_webhook", "send_document"}

\* C19: for the send-message-family methods an optional argument is in the
\* params of the request exactly when the caller supplied it (it is not
\* None), a zero or empty value included.
C19_SentIffSupplied ==
    (op \in SendFamily) =>
        \A p \in OptionalParams(op) : (p \in DOMAIN output) <=> (input[p] # None)

\* the optional assignments of a class, of the given kinds, follow the
\* presence of the key: None when it is absent, a value when it is present
FollowsPresence(cls, hows, obj, attrs) ==
    \A i \in 1..Len(Layout(cls)) :
        LET entry == Layout(cls)[i] IN
        (entry[3] \in hows) =>
            /\ (entry[2] \notin DOMAIN obj) => (attrs[entry[1]] = None)
            /\ (entry[2] \in DOMAIN obj) => (attrs[entry[1]] # None)

\* the same for an update, its messages and the chat of each
DecodedByPresence(hows) ==
    (op = "Update" /\ output.tag = "return") =>
        /\ FollowsPresence("Update", hows, input, output.value)
        /\ \A f \in MessageKeys \cap DOMAIN input :
               /\ FollowsPresence("Message", hows, input[f], output.value[f][1])
               /\ FollowsPresence("Chat", hows, input[f].chat, output.value[f][1].chat)

C20_FlagsDefaultFalse ==
    (op = "Update" /\ output.tag = "return") =>
        \A f \in MessageKeys \cap DOMAIN input :
            \A k \in {"delete_chat_photo", "group_chat_created",
                      "supergroup_chat_created", "channel_chat_created"} :
                output.value[f][1][k] =
                    Some(IF k \in DOMAIN input[f] THEN input[f][k] ELSE FALSE)

C21_PoisonStep ==
    (pc = "on_update" /\ pc' # pc /\ lastOutcome' = "raise") =>
        /\ pc' = "for"
        /\ offset' = updates[idx].id + 1
        /\ idx' = idx + 1
        /\ updates' = updates

C21_PoisonNeverStalls ==
    /\ [][C21_PoisonStep]_vars
    /\ [](contractKept => Ascending(delivered))
    /\ []((contractKept /\ pc = "get_updates") =>
              \A i \in 1..Len(processed) : processed[i] < requested)
    /\ <>[](pc = "raised" \/ delivered = received)

\* the call for the first update of a batch raised, the second is being
\* handled; later the next get_updates call asks for what follows
C21_Witness ==
    /\ contractKept
    /\ ~is_stopped
    /\ pc = "on_update"
    /\ idx = 2
    /\ lastOutcome = "raise"
    /\ Len(processed) = 1
    /\ updates[2].id > processed[1]

\* what the scenario says of a run whose first batch is 10, 11, apart from
\* the number of get_updates calls: on_update is invoked with 10, then with
\* 11; the Exception of the call for 11 does not end run(); the offset is
\* 12 from the end of the first cycle on and every later get_updates call
\* asks for 12.
C22_Dispatch ==
    (Len(received) >= 1 /\ received[1] = 10) =>
        /\ received = << 10, 11 >>
        /\ IsPrefix(delivered, received)
        /\ IsPrefix(processed, delivered)
        /\ pc = "raised" => ~startReturned
        /\ (processed = << 10, 11 >>) => (offset = 12 /\ lastOutcome = "raise")
        /\ (fetches >= 2) => (requested = 12 /\ delivered = << 10, 11 >>)

\* C22 as stated: with the scripted transport and bot, and 10, 11 the
\* first batch, the above holds and run() returns after exactly one more
\* get_updates call than the first.
C22_OneMoreFetch ==
    /\ C22_Dispatch
    /\ (Len(received) >= 1 /\ received[1] = 10 /\ pc = "returned") => fetches = 2

\* C22 as amended: the same, but run() returns after two more get_updates
\* calls, both asking for 12: the one that returns the empty list and the
\* one during which stop() is called; under FairScripted, once on_start
\* has returned, it does return.
C22_TwoMoreFetches ==
    /\ [](C22_Dispatch)
    /\ []((Len(received) >= 1 /\ received[1] = 10 /\ pc = "returned") =>
              (fetches = 3 /\ offset = 12 /\ is_stopped))
    /\ [](is_stopped => fetches = 3)
    /\ <>[](startReturned => pc = "returned")

C22_Witness ==
    /\ pc = "returned"
    /\ received = << 10, 11 >>
    /\ delivered = << 10, 11 >>
    /\ lastOutcome = "raise"
    /\ offset = 12
    /\ requested = 12
    /\ fetches = 3

\* C24: the offset is derived only from the last update iterated, without
\* comparison against the previous offset: when a non-empty batch has been
\* fully processed, offset = (id of the last element of the batch) + 1,
\* whatever the order of the ids and whatever the offset requested; every
\* completed handler sets the offset to the id of its update plus one
C24_AssignStep ==
    (pc = "on_update" /\ pc' = "for") => offset' = updates[idx].id + 1

C24_OffsetFromLastOnly ==
    /\ [][C24_AssignStep]_vars
    /\ []((pc = "for" /\ Len(updates) > 0 /\ idx > Len(updates))
              => offset = updates[Len(updates)].id + 1)

\* a batch with an id below the requested offset has moved the offset
\* backwards, and the next batch, which keeps the contract for the offset
\* requested, has been fully processed and ends with an update that had
\* been dispatched before
C24_Witness ==
    /\ ~contractKept
    /\ pc = "for"
    /\ Len(updates) > 0
    /\ idx > Len(updates)
    /\ KeepsContract(updates, requested)
    /\ offset = updates[Len(updates)].id + 1
    /\ \E i \in 1..(Len(delivered) - 1) :
          /\ delivered[i] = delivered[Len(delivered)]
          /\ requested <= delivered[i]

\* C25: loop() isolates only errors of class Exception: a cancellation or
\* another non-Exception BaseException raised inside get_updates or inside
\* on_update is not caught, run() terminates with it, the offset is not
\* advanced past the update whose handler was interrupted, and the
\* remaining updates of the batch are not dispatched
C25_FetchInterruptedStep ==
    (pc = "get_updates" /\ lastFetch' = "interrupted")
        => /\ pc' = "raised"
           /\ ~IsException(exc')
           /\ offset' = offset
           /\ delivered' = delivered
           /\ updates' = updates

C25_HandlerInterruptedStep ==
    (pc = "on_update" /\ lastOutcome' = "interrupted")
        => /\ pc' = "raised"
           /\ ~IsException(exc')
           /\ offset' = offset
           /\ idx' = idx
           /\ delivered' = delivered
           /\ processed' = processed

C25_TerminatedStep ==
    pc = "raised"
        => /\ pc' = "raised"
           /\ exc' = exc
           /\ offset' = offset
           /\ delivered' = delivered
           /\ fetches' = fetches

C25_OnlyExceptionIsolated ==
    /\ [][C25_FetchInterruptedStep]_vars
    /\ [][C25_HandlerInterruptedStep]_vars
    /\ [][C25_TerminatedStep]_vars
    /\ []((pc = "raised" /\ startReturned) => ~IsException(exc))
    /\ []((pc = "raised" /\ lastOutcome = "interrupted")
              => /\ idx <= Len(updates)
                 /\ Last(delivered) = updates[idx].id
                 /\ contractKept => offset <= updates[idx].id
                 /\ Len(delivered) = Len(processed) + 1)

\* the handler of the first update of a batch of two has been interrupted:
\* run() has terminated, the second update has not been dispatched and the
\* offset is the one requested
C25_Witness ==
    /\ pc = "raised"
    /\ exc = "BaseException"
    /\ lastOutcome = "interrupted"
    /\ contractKept
    /\ Len(updates) = 2
    /\ idx = 1
    /\ offset = requested
    /\ offset <= updates[1].id
    /\ Last(delivered) = updates[1].id
    /\ is_stopped

\* main() has ended after the event loop ran
MainEnded == main \in {"closed", "failed"}

\* what the drain after an interrupt is to achieve: the cycle in progress
\* is completed and its updates are dispatched, no get_updates call is
\* issued after it, run() returns, the session is closed and the event
\* loop is closed
C23_Drained ==
    /\ main = "closed"
    /\ task = "done"
    /\ pc = "returned"
    /\ session = "closed"
    /\ delivered = received
    /\ fetches = IF midStop # -1 THEN midStop ELSE stopMark

\* C23: in the command line an interrupt during the run leads to
\* runner.stop() followed by draining: the cycle in progress is completed
\* (its updates are dispatched), no get_updates call is issued after it,
\* the session is closed when run() returns and only then the event loop
\* is closed; a bad class selector exits with a usage error before a
\* runner is constructed or a fetch is issued
C23_InterruptDrains ==
    /\ class_ \in BadSelectors
          => (main = "usage_error" /\ session = "none" /\ task = "none"
                /\ pc = "idle" /\ fetches = 0)
    /\ is_stopped => main \in {"gather", "closed", "failed"}
    /\ main = "closed" => (session = "closed" /\ task # "pending")
    /\ (MainEnded /\ is_stopped /\ startReturned) => C23_Drained

\* C23, for an interrupt that is raised in the event loop while the task is
\* suspended at an await: the drain is as the claim says
C23_DrainsWhenSuspended ==
    /\ class_ \in BadSelectors
          => (main = "usage_error" /\ session = "none" /\ task = "none"
                /\ pc = "idle" /\ fetches = 0)
    /\ is_stopped => main \in {"gather", "closed", "failed"}
    /\ main = "closed" => (session = "closed" /\ task # "pending")
    /\ (MainEnded /\ is_stopped /\ startReturned
          /\ ~(pc = "raised" /\ ~IsException(exc))) => C23_Drained

\* the interrupt came while get_updates was awaited; the batch of two that
\* the call returned has been dispatched and main() has closed the loop
C23_DrainedWitness ==
    /\ C23_Drained
    /\ is_stopped
    /\ midStop = 1
    /\ Len(delivered) = 2

=============================================================================
